---- MODULE Spec2Model ----
(***************************************************************************)
(* Document construction of package nlp (src/nlp/document.go): the         *)
(* functional options, the process-wide defaultOpts, NewDocument's option  *)
(* phase, model resolution and the three pipeline stages, and the two      *)
(* accessors Tokens() and Sentences().                                     *)
(***************************************************************************)
EXTENDS Naturals, Sequences, FiniteSets

\* ------------------------------------------------------------------ bounds
\* Longest variadic option list passed to one NewDocument call.
MaxOpts == 2
\* Number of NewDocument callers (goroutines) that can be in flight.
NumCalls == 2
\* Number of element writes a caller performs on slices the accessors returned.
MaxWrites == 1

Calls == 1 .. NumCalls
\* The caller of the sequential program.
Main == CHOOSE c \in Calls : \A d \in Calls : c <= d

\* Input texts: sequences of characters, "." ends a sentence.
Texts == { <<>>, <<"a">>, <<"a", ".">>, <<"a", ".", "b">> }
\* Text and option lists used when several calls are in flight at once.
ConcTexts == { <<"a", ".">> }

\* ------------------------------------------------------------ collaborators
\* Tokenizer values: the nil interface, the tokenizer defaultOpts holds, and a
\* caller-supplied implementation.
NilTokenizer == "nil"
IterTokenizer == "NewIterTokenizer"
CustomTokenizer == "custom"
Tokenizers == {NilTokenizer, IterTokenizer, CustomTokenizer}

\* Model pointers: nil, two caller-built models (with and without a tagger)
\* and the two models defaultModel can return.
NilModel == "nil"
UserModel == "userModel"
UserModelNoTagger == "userModelNoTagger"
DefaultModelTagging == "defaultModel(true)"
DefaultModelPlain == "defaultModel(false)"

\* Whether model.tagger is set.
HasTagger(m) == m \in {UserModel, DefaultModelTagging}

\* defaultModel(tagging): carries a tagger exactly when tagging is requested.
defaultModel(tagging) == IF tagging THEN DefaultModelTagging ELSE DefaultModelPlain

NoTag == "-"
PosTag == "POS"

RECURSIVE SegmentFrom(_, _)
\* Sentences of the text `rest`, `cur` being the sentence read so far.
SegmentFrom(rest, cur) ==
    IF rest = <<>>
    THEN IF cur = <<>> THEN <<>> ELSE <<cur>>
    ELSE IF Head(rest) = "."
         THEN <<Append(cur, ".")>> \o SegmentFrom(Tail(rest), <<>>)
         ELSE SegmentFrom(Tail(rest), Append(cur, Head(rest)))

\* segmenter.segment(text)
segment(text) == SegmentFrom(text, <<>>)

\* Tokenizer.Tokenize(text): the default tokenizer yields one token per
\* character, the caller-supplied one a single token for a non-empty text.
Tokenize(tokenizer, text) ==
    IF tokenizer = IterTokenizer
    THEN [k \in 1 .. Len(text) |-> [Text |-> <<text[k]>>, Tag |-> NoTag]]
    ELSE IF text = <<>> THEN <<>> ELSE <<[Text |-> text, Tag |-> NoTag]>>

\* tagger.tag(tokens): same tokens, same order, each annotated.
tag(tokens) == [k \in 1 .. Len(tokens) |-> [tokens[k] EXCEPT !.Tag = PosTag]]

\* ------------------------------------------------------------------ options
UsingTokenizer(include) == [kind |-> "UsingTokenizer", arg |-> include]
WithTokenization(include) ==
    [kind |-> "WithTokenization", arg |-> IF include THEN "true" ELSE "false"]
WithTagging(include) ==
    [kind |-> "WithTagging", arg |-> IF include THEN "true" ELSE "false"]
WithSegmentation(include) ==
    [kind |-> "WithSegmentation", arg |-> IF include THEN "true" ELSE "false"]
UsingModel(model) == [kind |-> "UsingModel", arg |-> model]

DocOpt ==
    {UsingTokenizer(t) : t \in Tokenizers}
        \cup {WithTokenization(b) : b \in BOOLEAN}
        \cup {WithTagging(b) : b \in BOOLEAN}
        \cup {WithSegmentation(b) : b \in BOOLEAN}
        \cup {UsingModel(m) : m \in {NilModel, UserModel, UserModelNoTagger}}

\* applyOpt with WithTagging(true) also re-installing the default tokenizer.
applyOptTaggingForcesTokenizer(o, cfg) ==
    CASE o.kind = "UsingTokenizer" ->
            [cfg EXCEPT !.base.Tokenizer = o.arg]
      [] o.kind = "WithTokenization" ->
            IF o.arg = "false"
            THEN [cfg EXCEPT !.base.Tokenizer = NilTokenizer]
            ELSE cfg
      [] o.kind = "WithTagging" ->
            [cfg EXCEPT !.base.Tag = (o.arg = "true"),
                        !.base.Tokenizer =
                            IF o.arg = "true" /\ @ = NilTokenizer
                            THEN IterTokenizer ELSE @]
      [] o.kind = "WithSegmentation" ->
            [cfg EXCEPT !.base.Segment = (o.arg = "true")]
      [] o.kind = "UsingModel" ->
            [cfg EXCEPT !.Model = o.arg]

\* What one option closure does to (doc, opts); cfg = [base |-> DocOpts, Model |-> doc.Model].
applyOpt(o, cfg) ==
    CASE o.kind = "UsingTokenizer" ->
            [cfg EXCEPT !.base.Tokenizer = o.arg]
      [] o.kind = "WithTokenization" ->
            IF o.arg = "false"
            THEN [cfg EXCEPT !.base.Tokenizer = NilTokenizer]
            ELSE cfg
      [] o.kind = "WithTagging" ->
            [cfg EXCEPT !.base.Tag = (o.arg = "true")]
      [] o.kind = "WithSegmentation" ->
            [cfg EXCEPT !.base.Segment = (o.arg = "true")]
      [] o.kind = "UsingModel" ->
            [cfg EXCEPT !.Model = o.arg]

\* var defaultOpts
DefaultDocOpts == [Tokenizer |-> IterTokenizer, Segment |-> TRUE, Tag |-> TRUE]

OptLists(n) == UNION {[1 .. k -> DocOpt] : k \in 0 .. n}

\* -------------------------------------------------------------------- state
VARIABLES
    defaultOpts,  \* the package variable defaultOpts
    call,         \* per caller: the locals of its NewDocument call and the Document
    mem,          \* per caller: the backing arrays its Document and results live in
    got           \* per caller: the slices the accessors handed out, and its writes

vars == <<defaultOpts, call, mem, got>>

NilSlice == "nil"
NotCalled == "none"

Idle ==
    [pc |-> "idle", text |-> <<>>, opts |-> <<>>, i |-> 0,
     base |-> DefaultDocOpts, Model |-> NilModel,
     sentences |-> NilSlice, tokens |-> NilSlice,
     pipeError |-> "nil", log |-> <<>>, tagIn |-> <<>>, tokOut |-> <<>>,
     built |-> [sentences |-> <<>>, tokens |-> <<>>]]

NoArrays == [sentences |-> <<>>, tokens |-> <<>>, copy |-> <<>>]
NoResults == [Sentences |-> NotCalled, Tokens |-> NotCalled, writes |-> 0]

Init ==
    /\ defaultOpts = DefaultDocOpts
    /\ call = [c \in Calls |-> Idle]
    /\ mem = [c \in Calls |-> NoArrays]
    /\ got = [c \in Calls |-> NoResults]

Cfg(c) == [base |-> call[c].base, Model |-> call[c].Model]

\* doc.sentences and doc.tokens as values.
SentencesOf(c) ==
    IF call[c].sentences = NilSlice THEN <<>> ELSE mem[c][call[c].sentences]
TokensOf(c) ==
    IF call[c].tokens = NilSlice THEN <<>> ELSE mem[c][call[c].tokens]

\* ------------------------------------------------------------- NewDocument
\* Lines 91-94: doc := Document{Text: text}; base := defaultOpts (a struct copy).
Begin(c, text, opts) ==
    /\ call[c].pc = "idle"
    /\ call' = [call EXCEPT ![c] =
                  [Idle EXCEPT !.pc = "opts", !.text = text, !.opts = opts,
                               !.base = defaultOpts]]
    /\ mem' = [mem EXCEPT ![c] = NoArrays]
    /\ got' = [got EXCEPT ![c] = NoResults]
    /\ UNCHANGED defaultOpts

\* A call of the sequential program: no other call is in flight.
NewDocumentBegin(c) ==
    /\ \A d \in Calls : call[d].pc = "idle"
    /\ \E text \in Texts, opts \in OptLists(MaxOpts) : Begin(c, text, opts)

\* A call made while other calls may be in flight.
NewDocumentBeginConc(c) ==
    /\ call[c].pc = "idle"
    /\ \E text \in ConcTexts, opts \in OptLists(1) : Begin(c, text, opts)

\* ApplyOpt with base aliasing the package variable instead of copying it.
ApplyOptOnSharedDefault(c) ==
    /\ call[c].pc = "opts"
    /\ call[c].i < Len(call[c].opts)
    /\ LET o == call[c].opts[call[c].i + 1]
           r == applyOpt(o, Cfg(c))
       IN /\ call' = [call EXCEPT ![c].base = r.base, ![c].Model = r.Model,
                                  ![c].i = @ + 1,
                                  ![c].log = Append(@, "opt")]
          /\ defaultOpts' = r.base
    /\ UNCHANGED <<mem, got>>

\* Lines 95-97: one iteration of the option loop.
ApplyOpt(c) ==
    /\ call[c].pc = "opts"
    /\ call[c].i < Len(call[c].opts)
    /\ LET o == call[c].opts[call[c].i + 1]
           r == applyOpt(o, Cfg(c))
       IN call' = [call EXCEPT ![c].base = r.base, ![c].Model = r.Model,
                               ![c].i = @ + 1,
                               ![c].log = Append(@, "opt")]
    /\ UNCHANGED <<defaultOpts, mem, got>>

\* ResolveModel choosing the default model by defaultOpts.Tag.
ResolveModelByDefaultTag(c) ==
    /\ call[c].pc = "opts"
    /\ call[c].i = Len(call[c].opts)
    /\ call' = [call EXCEPT ![c].pc = "segment",
                            ![c].Model = IF @ = NilModel
                                         THEN defaultModel(defaultOpts.Tag)
                                         ELSE @,
                            ![c].log = Append(@, "model")]
    /\ UNCHANGED <<defaultOpts, mem, got>>

\* Lines 99-101: the loop is over; resolve the model.
ResolveModel(c) ==
    /\ call[c].pc = "opts"
    /\ call[c].i = Len(call[c].opts)
    /\ call' = [call EXCEPT ![c].pc = "segment",
                            ![c].Model = IF @ = NilModel
                                         THEN defaultModel(call[c].base.Tag)
                                         ELSE @,
                            ![c].log = Append(@, "model")]
    /\ UNCHANGED <<defaultOpts, mem, got>>

\* Segment handing over to the tagging stage, past the tokenizer.
SegmentThenTag(c) ==
    /\ call[c].pc = "segment"
    /\ IF call[c].base.Segment
       THEN /\ mem' = [mem EXCEPT ![c].sentences = segment(call[c].text)]
            /\ call' = [call EXCEPT ![c].pc = "tag",
                                    ![c].sentences = "sentences",
                                    ![c].log = Append(@, "segment")]
       ELSE /\ call' = [call EXCEPT ![c].pc = "tag"]
            /\ UNCHANGED mem
    /\ UNCHANGED <<defaultOpts, got>>

\* Lines 103-106.
Segment(c) ==
    /\ call[c].pc = "segment"
    /\ IF call[c].base.Segment
       THEN /\ mem' = [mem EXCEPT ![c].sentences = segment(call[c].text)]
            /\ call' = [call EXCEPT ![c].pc = "tokenize",
                                    ![c].sentences = "sentences",
                                    ![c].log = Append(@, "segment")]
       ELSE /\ call' = [call EXCEPT ![c].pc = "tokenize"]
            /\ UNCHANGED mem
    /\ UNCHANGED <<defaultOpts, got>>

\* TokenizeStage forced on by tagging, with the default tokenizer.
TokenizeStageForcedByTag(c) ==
    /\ call[c].pc = "tokenize"
    /\ IF call[c].base.Tokenizer # NilTokenizer \/ call[c].base.Tag
       THEN LET tokenizer == IF call[c].base.Tokenizer # NilTokenizer
                             THEN call[c].base.Tokenizer ELSE IterTokenizer
                out == Tokenize(tokenizer, call[c].text)
            IN /\ mem' = [mem EXCEPT ![c].tokens = TokensOf(c) \o out]
               /\ call' = [call EXCEPT ![c].pc = "tag",
                                       ![c].tokens = "tokens",
                                       ![c].tokOut = out,
                                       ![c].log = Append(@, "tokenize")]
       ELSE /\ call' = [call EXCEPT ![c].pc = "tag"]
            /\ UNCHANGED mem
    /\ UNCHANGED <<defaultOpts, got>>

\* Lines 107-109.
TokenizeStage(c) ==
    /\ call[c].pc = "tokenize"
    /\ IF call[c].base.Tokenizer # NilTokenizer
       THEN LET out == Tokenize(call[c].base.Tokenizer, call[c].text)
            IN /\ mem' = [mem EXCEPT ![c].tokens = TokensOf(c) \o out]
               /\ call' = [call EXCEPT ![c].pc = "tag",
                                       ![c].tokens = "tokens",
                                       ![c].tokOut = out,
                                       ![c].log = Append(@, "tokenize")]
       ELSE /\ call' = [call EXCEPT ![c].pc = "tag"]
            /\ UNCHANGED mem
    /\ UNCHANGED <<defaultOpts, got>>

\* TagStage leaving the tagger out when no tokenizer is set.
TagStageNeedsTokenizer(c) ==
    /\ call[c].pc = "tag"
    /\ IF call[c].base.Tag /\ call[c].base.Tokenizer # NilTokenizer
       THEN IF HasTagger(call[c].Model)
            THEN /\ mem' = [mem EXCEPT ![c].tokens = tag(TokensOf(c))]
                 /\ call' = [call EXCEPT ![c].pc = "return",
                                         ![c].tokens = "tokens",
                                         ![c].tagIn = TokensOf(c),
                                         ![c].log = Append(@, "tag")]
            ELSE /\ call' = [call EXCEPT ![c].pc = "panicked",
                                         ![c].tagIn = TokensOf(c),
                                         ![c].log = Append(@, "tag")]
                 /\ UNCHANGED mem
       ELSE /\ call' = [call EXCEPT ![c].pc = "return"]
            /\ UNCHANGED mem
    /\ UNCHANGED <<defaultOpts, got>>

\* Lines 110-112. A model without a tagger makes doc.Model.tagger.tag panic:
\* the call unwinds and nothing is returned.
TagStage(c) ==
    /\ call[c].pc = "tag"
    /\ IF call[c].base.Tag
       THEN IF HasTagger(call[c].Model)
            THEN /\ mem' = [mem EXCEPT ![c].tokens = tag(TokensOf(c))]
                 /\ call' = [call EXCEPT ![c].pc = "return",
                                         ![c].tokens = "tokens",
                                         ![c].tagIn = TokensOf(c),
                                         ![c].log = Append(@, "tag")]
            ELSE /\ call' = [call EXCEPT ![c].pc = "panicked",
                                         ![c].tagIn = TokensOf(c),
                                         ![c].log = Append(@, "tag")]
                 /\ UNCHANGED mem
       ELSE /\ call' = [call EXCEPT ![c].pc = "return"]
            /\ UNCHANGED mem
    /\ UNCHANGED <<defaultOpts, got>>

\* Line 114: return &doc, pipeError.
Return(c) ==
    /\ call[c].pc = "return"
    /\ call' = [call EXCEPT ![c].pc = "done",
                            ![c].built = [sentences |-> SentencesOf(c),
                                          tokens |-> TokensOf(c)],
                            ![c].log = Append(@, "return")]
    /\ UNCHANGED <<defaultOpts, mem, got>>

\* --------------------------------------------------------------- accessors
\* Lines 66-72: a fresh slice holding a copy of every token.
Tokens(c) ==
    /\ call[c].pc = "done"
    /\ mem' = [mem EXCEPT ![c].copy = TokensOf(c)]
    /\ got' = [got EXCEPT ![c].Tokens = "copy"]
    /\ UNCHANGED <<defaultOpts, call>>

\* Lines 75-77: the Document's own slice.
Sentences(c) ==
    /\ call[c].pc = "done"
    /\ got' = [got EXCEPT ![c].Sentences = call[c].sentences]
    /\ UNCHANGED <<defaultOpts, call, mem>>

ScribbledSentence == <<"x">>
ScribbledToken == [Text |-> <<"x">>, Tag |-> "x"]

\* The caller assigns to one element of a slice an accessor returned.
CallerWrite(c) ==
    /\ call[c].pc = "done"
    /\ got[c].writes < MaxWrites
    /\ \E which \in {"Sentences", "Tokens"} :
          /\ got[c][which] \notin {NotCalled, NilSlice}
          /\ \E k \in 1 .. Len(mem[c][got[c][which]]) :
                mem' = [mem EXCEPT ![c][got[c][which]][k] =
                          IF which = "Sentences" THEN ScribbledSentence
                                                 ELSE ScribbledToken]
    /\ got' = [got EXCEPT ![c].writes = @ + 1]
    /\ UNCHANGED <<defaultOpts, call>>

\* The caller drops the Document (or recovers from the panic); it may call again.
Discard(c) ==
    /\ call[c].pc \in {"done", "panicked"}
    /\ call' = [call EXCEPT ![c] = Idle]
    /\ mem' = [mem EXCEPT ![c] = NoArrays]
    /\ got' = [got EXCEPT ![c] = NoResults]
    /\ UNCHANGED defaultOpts

\* ----------------------------------------------------------- specifications
Next ==
    \/ NewDocumentBegin(Main)
    \/ ApplyOpt(Main)
    \/ ResolveModel(Main)
    \/ Segment(Main)
    \/ TokenizeStage(Main)
    \/ TagStage(Main)
    \/ Return(Main)
    \/ Tokens(Main)
    \/ Sentences(Main)
    \/ CallerWrite(Main)
    \/ Discard(Main)

Spec == Init /\ [][Next]_vars

NextConc ==
    \E c \in Calls :
        \/ NewDocumentBeginConc(c)
        \/ ApplyOpt(c)
        \/ ResolveModel(c)
        \/ Segment(c)
        \/ TokenizeStage(c)
        \/ TagStage(c)
        \/ Return(c)
        \/ Discard(c)

SpecConc == Init /\ [][NextConc]_vars

\* ------------------------------------------------------- claim vocabulary
\* The setting an option writes.
Target(o) ==
    CASE o.kind \in {"UsingTokenizer", "WithTokenization"} -> "tokenizer"
      [] o.kind = "WithTagging" -> "tag"
      [] o.kind = "WithSegmentation" -> "segment"
      [] o.kind = "UsingModel" -> "model"

\* Index of the last option of `opts` that targets `setting`, 0 if none does.
LastTargeting(opts, setting) ==
    LET hits == {k \in 1 .. Len(opts) : Target(opts[k]) = setting}
    IN IF hits = {} THEN 0 ELSE CHOOSE k \in hits : \A j \in hits : j <= k

RECURSIVE ApplyAll(_, _)
\* The option loop as a fold.
ApplyAll(opts, cfg) ==
    IF opts = <<>> THEN cfg ELSE ApplyAll(Tail(opts), applyOpt(Head(opts), cfg))

\* What a call starts from: a copy of the defaults and a Document without model.
StartCfg == [base |-> DefaultDocOpts, Model |-> NilModel]

InLog(c, e) == \E k \in 1 .. Len(call[c].log) : call[c].log[k] = e
Count(c, e) == Cardinality({k \in 1 .. Len(call[c].log) : call[c].log[k] = e})
Rank(e) ==
    CASE e = "opt" -> 0 [] e = "model" -> 1 [] e = "segment" -> 2
      [] e = "tokenize" -> 3 [] e = "tag" -> 4 [] e = "return" -> 5

Ended(c) == call[c].pc \in {"done", "panicked"}
OptionsApplied(c) == call[c].pc = "opts" /\ call[c].i = Len(call[c].opts)
PairwiseDifferentTargets(opts) ==
    \A j, k \in 1 .. Len(opts) : j # k => Target(opts[j]) # Target(opts[k])
Permutations(n) ==
    {p \in [1 .. n -> 1 .. n] : \A j, k \in 1 .. n : j # k => p[j] # p[k]}

\* ------------------------------------------------------------------ claims
\* C1: when the final configuration has no tokenizer, NewDocument returns a
\* Document whose Tokens() is empty and a nil error, also with tagging enabled
\* (the resolved model's tagger being applied to the empty token sequence).
C1_NoTokenizerNoTokens ==
    \A c \in Calls :
        (/\ Ended(c)
         /\ call[c].base.Tokenizer = NilTokenizer
         /\ (call[c].base.Tag => HasTagger(call[c].Model)))
        => /\ call[c].pc = "done"
           /\ call[c].pipeError = "nil"
           /\ TokensOf(c) = <<>>
           /\ (got[c].Tokens # NotCalled => mem[c][got[c].Tokens] = <<>>)

C1_Witness ==
    \E c \in Calls :
        /\ call[c].pc = "done"
        /\ call[c].text # <<>>
        /\ call[c].base.Tokenizer = NilTokenizer
        /\ call[c].base.Tag
        /\ InLog(c, "tag")
        /\ got[c].Tokens # NotCalled

\* C2: after the option loop every setting holds the value the last option
\* targeting it asked for (the default when none did); WithTokenization(true)
\* asks for tokenization to be enabled.
C2_LastWriteWins ==
    \A c \in Calls :
        OptionsApplied(c) =>
            LET opts == call[c].opts
                kTok == LastTargeting(opts, "tokenizer")
                kTag == LastTargeting(opts, "tag")
                kSeg == LastTargeting(opts, "segment")
                kMod == LastTargeting(opts, "model")
            IN /\ call[c].base.Tag = (kTag = 0 \/ opts[kTag].arg = "true")
               /\ call[c].base.Segment = (kSeg = 0 \/ opts[kSeg].arg = "true")
               /\ call[c].Model = IF kMod = 0 THEN NilModel ELSE opts[kMod].arg
               /\ IF kTok = 0
                  THEN call[c].base.Tokenizer = IterTokenizer
                  ELSE IF opts[kTok].kind = "UsingTokenizer"
                       THEN call[c].base.Tokenizer = opts[kTok].arg
                       ELSE (call[c].base.Tokenizer # NilTokenizer)
                                <=> (opts[kTok].arg = "true")

\* C3: WithTokenization(b), applied to any configuration a call can be in,
\* leaves the tokenizer that UsingTokenizer(default) (b true) or
\* UsingTokenizer(nil) (b false) would leave, and leaves tag and segment alone.
C3_LegacyToggleIsInstallOrRemove ==
    \A c \in Calls :
        (/\ call[c].pc = "opts"
         /\ call[c].i >= 1
         /\ call[c].opts[call[c].i].kind = "WithTokenization")
        => LET before == ApplyAll(SubSeq(call[c].opts, 1, call[c].i - 1), StartCfg)
               same == UsingTokenizer(IF call[c].opts[call[c].i].arg = "true"
                                      THEN IterTokenizer ELSE NilTokenizer)
           IN /\ call[c].base.Tokenizer = applyOpt(same, before).base.Tokenizer
              /\ call[c].base.Tag = before.base.Tag
              /\ call[c].base.Segment = before.base.Segment

\* C4: options that target different settings commute: from every
\* configuration a call passes through, two such options give the same
\* configuration and model in either order, and an option list with pairwise
\* different targets resolves to the same result in every permutation.
C4_DisjointOptionsCommute ==
    \A c \in Calls :
        /\ call[c].pc = "opts" =>
              \A a, b \in DocOpt :
                  Target(a) # Target(b) =>
                      applyOpt(b, applyOpt(a, Cfg(c))) = applyOpt(a, applyOpt(b, Cfg(c)))
        /\ (OptionsApplied(c) /\ PairwiseDifferentTargets(call[c].opts)) =>
              \A p \in Permutations(Len(call[c].opts)) :
                  ApplyAll([k \in 1 .. Len(call[c].opts) |-> call[c].opts[p[k]]],
                           StartCfg) = Cfg(c)

C4_Witness ==
    \E c \in Calls :
        /\ OptionsApplied(c)
        /\ Len(call[c].opts) = 2
        /\ call[c].opts[1] = WithTagging(TRUE)
        /\ call[c].opts[2] = UsingTokenizer(NilTokenizer)
        /\ call[c].base.Tokenizer = NilTokenizer

\* C5: a returned Document has a model: the last model an option installed if
\* that one is not nil, otherwise the default model for the final tagging
\* setting.
C5_ModelResolved ==
    \A c \in Calls :
        call[c].pc = "done" =>
            LET opts == call[c].opts
                kMod == LastTargeting(opts, "model")
            IN /\ call[c].Model # NilModel
               /\ IF kMod # 0 /\ opts[kMod].arg # NilModel
                  THEN call[c].Model = opts[kMod].arg
                  ELSE call[c].Model = defaultModel(call[c].base.Tag)

C5_Witness ==
    \E c \in Calls :
        /\ call[c].pc = "done"
        /\ call[c].opts = <<WithTagging(FALSE), UsingModel(NilModel)>>
        /\ call[c].Model = DefaultModelPlain

\* C6: whatever a caller writes into the slices Tokens() and Sentences()
\* returned, the Document's own tokens and sentences stay as constructed.
C6_AccessorsReturnCopies ==
    \A c \in Calls :
        call[c].pc = "done" =>
            /\ TokensOf(c) = call[c].built.tokens
            /\ SentencesOf(c) = call[c].built.sentences

\* C7: a call that has ended either returned the Document with a nil error
\* after running every requested stage, or returned a non-nil error; a model
\* without the tagger that tagging needs gives the latter.
C7_FailureIsReturnedAsError ==
    \A c \in Calls :
        Ended(c) =>
            \/ /\ call[c].pc = "done"
               /\ call[c].pipeError = "nil"
               /\ call[c].base.Tag => HasTagger(call[c].Model)
               /\ InLog(c, "segment") <=> call[c].base.Segment
               /\ InLog(c, "tokenize") <=> call[c].base.Tokenizer # NilTokenizer
               /\ InLog(c, "tag") <=> call[c].base.Tag
            \/ /\ call[c].pc = "done"
               /\ call[c].pipeError # "nil"
               /\ call[c].built = Idle.built

C9_DefaultOptsNeverChange ==
    /\ defaultOpts = DefaultDocOpts
    /\ \A c \in Calls :
          (call[c].pc # "idle" /\ call[c].opts = <<>>)
          => call[c].base = DefaultDocOpts

C9_Witness ==
    \E c, d \in Calls :
        /\ c # d
        /\ call[c].pc = "segment"
        /\ call[c].opts = <<WithTagging(FALSE)>>
        /\ ~call[c].base.Tag
        /\ call[d].pc = "segment"
        /\ call[d].opts = <<>>
        /\ call[d].Model = DefaultModelTagging

\* C10: within one call the options are applied in call order, all of them
\* before the model is resolved,
\* the model is resolved before any stage, the enabled stages run once each in
\* the order segment, tokenize, tag, the tagger is given the tokens the
\* tokenizer produced in this call (none without a tokenizer), and the
\* Document is returned after the last enabled stage.
C10_PhasesInOrder ==
    \A c \in Calls :
        LET log == call[c].log
        IN /\ \A j, k \in 1 .. Len(log) :
                 j < k => /\ Rank(log[j]) <= Rank(log[k])
                          /\ Rank(log[k]) > 0 => Rank(log[j]) < Rank(log[k])
           /\ InLog(c, "model") => Count(c, "opt") = Len(call[c].opts)
           /\ Count(c, "opt") = call[c].i
           /\ call[c].pc = "opts" =>
                 Cfg(c) = ApplyAll(SubSeq(call[c].opts, 1, call[c].i), StartCfg)
           /\ InLog(c, "tag") =>
                 call[c].tagIn = IF InLog(c, "tokenize") THEN call[c].tokOut ELSE <<>>
           /\ call[c].pc = "done" =>
                 /\ log[Len(log)] = "return"
                 /\ InLog(c, "model")
                 /\ InLog(c, "segment") <=> call[c].base.Segment
                 /\ InLog(c, "tokenize") <=> call[c].base.Tokenizer # NilTokenizer
                 /\ InLog(c, "tag") <=> call[c].base.Tag

C10_Witness ==
    \E c \in Calls :
        /\ call[c].pc = "done"
        /\ Len(call[c].opts) = MaxOpts
        /\ call[c].log =
              [k \in 1 .. MaxOpts |-> "opt"]
                  \o <<"model", "segment", "tokenize", "tag", "return">>
        /\ call[c].tagIn = call[c].tokOut
        /\ Len(call[c].tokOut) > 1

====
